---- MODULE Spec2Model ----
(***************************************************************************)
(* One render pass of the Islamic Digital Economy dashboard (src/app.py).  *)
(* The script runs top to bottom: filter population, one of four views,    *)
(* four summary metrics, the country profile, the cross-sector comparison  *)
(* and the report download.  Every requests.get / requests.post is a step  *)
(* whose outcome (transport exception, non-200, 200 with a body) is chosen  *)
(* by the backend.                                                          *)
(*                                                                         *)
(* Numbers: avg_growth_rate is kept in tenths of a percent (75.4 is 754).   *)
(* A JSON value is [shape, val]: a list of rows or a single object.         *)
(***************************************************************************)
EXTENDS Integers, Sequences, FiniteSets, TLC

\* ---------------------------------------------------------------- bounds
MaxRows == 2
MaxTotal == 2
MaxCount == 3
MaxQueryLen == 1

\* ------------------------------------------------------ program constants
Million == 1000000
DefaultRate == 754

DefaultCountries == <<"Malaysia", "Indonesia", "Saudi Arabia">>
Labels == <<"Halal E-commerce", "Islamic Fintech", "ICT Services">>
Endpoints == <<"halal_ecommerce", "islamic_fintech", "ict_services">>

\* ------------------------------------------------------- backend's values
CountryNames == {"Malaysia", "Turkey"}
Rates == {612}
Chars == {" ", "a"}

SeqsUpTo(S, n) == UNION {[1..k -> S] : k \in 0..n}

Queries == SeqsUpTo(Chars, MaxQueryLen)

EmptyMap == [x \in {} |-> 0]
NoBody == [shape |-> "none", val |-> <<>>]
EmptyList == [shape |-> "list", val |-> <<>>]

ListBodies(rows) == {[shape |-> "list", val |-> s] : s \in SeqsUpTo(rows, MaxRows)}
ObjectBodies(rows) == {[shape |-> "object", val |-> r] : r \in rows}

\* rows of /query/{dataset}; of their fields only country is kept
QueryRows == [country : CountryNames]
QueryBodies == ListBodies(QueryRows) \cup ObjectBodies(QueryRows)

\* rows of /aggregation/{dataset}: total is a number, or a JSON object
\* (numeric = FALSE), which row["total"] * 1_000_000 cannot multiply
AggRows ==
    [country : CountryNames, total : 1..MaxTotal, numeric : {TRUE}]
        \cup [country : CountryNames, total : {0}, numeric : {FALSE}]
AggBodies == ListBodies(AggRows) \cup ObjectBodies(AggRows)
\* the aggregation responses of the full pass: one row at most
SingleRowAggBodies == ObjectBodies(AggRows) \cup {EmptyList}

\* objects of /summary/{dataset}: count and/or avg_growth_rate
SummaryDicts ==
    {EmptyMap}
        \cup {[count |-> n] : n \in 0..MaxCount}
        \cup {[avg_growth_rate |-> r] : r \in Rates}
        \cup {[count |-> n, avg_growth_rate |-> r] : n \in 0..MaxCount, r \in Rates}
SummaryBodies == ObjectBodies(SummaryDicts)

AIBodies ==
    ObjectBodies({[answer |-> "text"], [answer |-> "text", result |-> <<>>], EmptyMap})
DownloadBodies == {[shape |-> "bytes", val |-> <<>>]}

\* what one call can come back with
Outcomes(bodies) ==
    {[kind |-> "exception", status |-> 0, body |-> NoBody],
     [kind |-> "http", status |-> 500, body |-> NoBody]}
        \cup {[kind |-> "http", status |-> 200, body |-> b] : b \in bodies}

Raised(o) == o.kind = "exception"
Ok(o) == o.kind = "http" /\ o.status = 200

\* ------------------------------------------------------------ call sites
Sites ==
    <<"filter",
      "agg_halal_revenue", "agg_ict_gross_output", "query_internet_penetration",
      "ai_query", "query_explorer",
      "summary_halal_ecommerce", "summary_islamic_fintech",
      "summary_ict_services", "summary_household_ict",
      "profile_halal_ecommerce", "profile_islamic_fintech",
      "cross_halal_ecommerce", "cross_islamic_fintech", "cross_ict_services",
      "download">>

Rank(site) == CHOOSE i \in 1..Len(Sites) : Sites[i] = site
CrossSite(i) == "cross_" \o Endpoints[i]

VARIABLES pc, countries, options, selected, button, user_query,
          country_profile, response, table, out, calls,
          country_totals, idx, raised, comparison_df

vars == <<pc, countries, options, selected, button, user_query,
          country_profile, response, table, out, calls,
          country_totals, idx, raised, comparison_df>>

\* ------------------------------------------------------- pure functions
\* isinstance(data, list)
IsList(data) == data.shape = "list"

\* data if isinstance(data, list) else [data]
Normalize(data) == IF IsList(data) THEN data ELSE [shape |-> "list", val |-> <<data.val>>]

\* pd.DataFrame(data): a list of rows gives one table row per element; a dict
\* of scalars raises ValueError
DataFrame(data) ==
    IF IsList(data)
    THEN [ok |-> TRUE, rows |-> Len(data.val)]
    ELSE [ok |-> FALSE, rows |-> 0]

\* the orders list(set(...)) can produce
Enumerations(S) ==
    {s \in [1..Cardinality(S) -> S] : \A i, j \in 1..Cardinality(S) : i # j => s[i] # s[j]}

\* the filter with no fallback when the call raises
FilterCountriesNoFallback(o) ==
    IF Raised(o)
    THEN {<<>>}
    ELSE IF ~Ok(o) \/ ~IsList(o.body)
         THEN {DefaultCountries}
         ELSE Enumerations({o.body.val[i].country : i \in 1..Len(o.body.val)})

\* lines 32-36: the country lists the filter-source outcome can produce
FilterCountries(o) ==
    IF Raised(o) \/ ~Ok(o)
    THEN {DefaultCountries}
    ELSE IF ~IsList(o.body)
         THEN {DefaultCountries}
         ELSE Enumerations({o.body.val[i].country : i \in 1..Len(o.body.val)})

\* str.strip()
RECURSIVE LStrip(_)
LStrip(s) == IF s # <<>> /\ Head(s) = " " THEN LStrip(Tail(s)) ELSE s
RECURSIVE RStrip(_)
RStrip(s) ==
    IF s # <<>> /\ s[Len(s)] = " " THEN RStrip(SubSeq(s, 1, Len(s) - 1)) ELSE s
\* the question taken as typed
NoStrip(s) == s
Strip(s) == RStrip(LStrip(s))

\* dict.get(key, default)
Get(d, key, default) == IF key \in DOMAIN d THEN d[key] ELSE default

\* format(n, ",.0f") of a non-negative integer
Pad3(k) ==
    IF k < 10 THEN "00" \o ToString(k)
    ELSE IF k < 100 THEN "0" \o ToString(k) ELSE ToString(k)
RECURSIVE Grouped(_)
Grouped(n) ==
    IF n < 1000 THEN ToString(n) ELSE Grouped(n \div 1000) \o "," \o Pad3(n % 1000)

\* the raw count shown as the amount
MetricUSDRaw(data) == "$" \o Grouped(Get(data, "count", 0)) \o " USD"

\* f"${data.get('count', 0) * 1_000_000:,.0f} USD"
MetricUSD(data) == "$" \o Grouped(Get(data, "count", 0) * Million) \o " USD"

\* f"{data.get('avg_growth_rate', 75.4):.1f}%"
MetricPct(data) ==
    LET t == Get(data, "avg_growth_rate", DefaultRate)
    IN ToString(t \div 10) \o "." \o ToString(t % 10) \o "%"

\* response.json() if response.status_code == 200 else default
SummaryData(o, default) == IF Ok(o) THEN o.body.val ELSE default

\* the entry summed with the one already there
PutSum(totals, country, label, total) ==
    LET inner == IF country \in DOMAIN totals THEN totals[country] ELSE EmptyMap
    IN [c \in DOMAIN totals \cup {country} |->
           IF c = country
           THEN [l \in DOMAIN inner \cup {label} |->
                    IF l = label
                    THEN (IF l \in DOMAIN inner THEN inner[l] + total ELSE total)
                    ELSE inner[l]]
           ELSE totals[c]]

\* lines 205-207: country_totals[country][label] = total
Put(totals, country, label, total) ==
    LET inner == IF country \in DOMAIN totals THEN totals[country] ELSE EmptyMap
    IN [c \in DOMAIN totals \cup {country} |->
           IF c = country
           THEN [l \in DOMAIN inner \cup {label} |-> IF l = label THEN total ELSE inner[l]]
           ELSE totals[c]]

\* lines 202-207: the rows from the i-th on; a total that is not a number raises
\* at the multiplication, after the rows before it were stored
RECURSIVE AccumulateRows(_, _, _, _)
AccumulateRows(rows, i, label, totals) ==
    IF i > Len(rows)
    THEN [totals |-> totals, raised |-> FALSE]
    ELSE IF ~rows[i].numeric
         THEN [totals |-> totals, raised |-> TRUE]
         ELSE AccumulateRows(rows, i + 1, label,
                             Put(totals, rows[i].country, label, rows[i].total * Million))

\* lines 197-209: one iteration of the loop, on the response it received
LoopBody(o, label, totals) ==
    IF Raised(o)
    THEN [totals |-> totals, raised |-> TRUE]
    ELSE IF ~Ok(o)
         THEN [totals |-> totals, raised |-> FALSE]
         ELSE AccumulateRows(Normalize(o.body).val, 1, label, totals)

\* line 212: DataFrame.from_dict(country_totals, orient="index").fillna(0);
\* the columns are the labels some country has
Columns(totals) == UNION {DOMAIN totals[c] : c \in DOMAIN totals}
ComparisonFrame(totals) ==
    [c \in DOMAIN totals |->
        [l \in Columns(totals) |-> IF l \in DOMAIN totals[c] THEN totals[c][l] ELSE 0]]

\* the call made again after the first attempt
IssueTwice(site) == Append(Append(calls, site), site)

\* requests.get / requests.post: the call is made once
Issue(site) == Append(calls, site)

At(site, o) == [site |-> site, kind |-> o.kind, status |-> o.status, body |-> o.body]

NoResponse == [site |-> "none", kind |-> "none", status |-> 0, body |-> NoBody]
NoTable == [site |-> "none", shape |-> "none", rows |-> 0]
NoOut == [widget |-> "none", label |-> "", value |-> ""]
NoWidget == [rendered |-> FALSE, options |-> <<>>]
NoCountry == ""

Built(site, data) == [site |-> site, shape |-> data.shape, rows |-> DataFrame(Normalize(data)).rows]
Widget(w, label, value) == [widget |-> w, label |-> label, value |-> value]
Rendered(opts) == [rendered |-> TRUE, options |-> opts]

\* ------------------------------------------------------------------ state
Init ==
    /\ pc = "filter"
    /\ countries = <<>>
    /\ options = [sidebar |-> NoWidget, explorer |-> NoWidget, profile |-> NoWidget]
    /\ selected = "Halal E-commerce"
    /\ button = FALSE
    /\ user_query = <<>>
    /\ country_profile = NoCountry
    /\ response = NoResponse
    /\ table = NoTable
    /\ out = NoOut
    /\ calls = <<>>
    /\ country_totals = EmptyMap
    /\ idx = 1
    /\ raised = FALSE
    /\ comparison_df = EmptyMap

\* an exception no handler catches: the script stops where it is
Abort == pc' = "aborted"

\* lines 32-38: the country selector
FilterPopulation ==
    /\ pc = "filter"
    /\ \E o \in Outcomes(QueryBodies) :
        /\ calls' = Issue("filter")
        /\ response' = At("filter", o)
        /\ countries' \in FilterCountries(o)
    /\ options' = [options EXCEPT !.sidebar = Rendered(countries')]
    /\ pc' = "view"
    /\ UNCHANGED <<selected, button, user_query, country_profile, table, out,
                   country_totals, idx, raised, comparison_df>>

\* lines 62-74, 84-97, 100-114: a 200 response is tabulated and, unless the
\* table is empty, charted
ChartResponse(site, o) ==
    IF Ok(o)
    THEN /\ table' = Built(site, o.body)
         /\ out' = IF table'.rows > 0 THEN Widget("chart", site, "") ELSE out
    ELSE UNCHANGED <<table, out>>

\* lines 56-74: the Halal E-commerce view
ViewHalal ==
    /\ pc = "view"
    /\ selected' = "Halal E-commerce"
    /\ \E o \in Outcomes(AggBodies) :
        /\ calls' = Issue("agg_halal_revenue")
        /\ response' = At("agg_halal_revenue", o)
        /\ IF Raised(o)
           THEN Abort /\ UNCHANGED <<table, out>>
           ELSE pc' = "summary_halal_ecommerce" /\ ChartResponse("agg_halal_revenue", o)
    /\ UNCHANGED <<countries, options, button, user_query, country_profile,
                   country_totals, idx, raised, comparison_df>>

\* lines 77-97: the ICT & Fintech view, first column
ViewICT ==
    /\ pc = "view"
    /\ selected' = "ICT & Fintech"
    /\ \E o \in Outcomes(AggBodies) :
        /\ calls' = Issue("agg_ict_gross_output")
        /\ response' = At("agg_ict_gross_output", o)
        /\ IF Raised(o)
           THEN Abort /\ UNCHANGED <<table, out>>
           ELSE pc' = "ict_col2" /\ ChartResponse("agg_ict_gross_output", o)
    /\ UNCHANGED <<countries, options, button, user_query, country_profile,
                   country_totals, idx, raised, comparison_df>>

\* lines 98-114: the ICT & Fintech view, second column
ViewPenetration ==
    /\ pc = "ict_col2"
    /\ \E o \in Outcomes(QueryBodies) :
        /\ calls' = Issue("query_internet_penetration")
        /\ response' = At("query_internet_penetration", o)
        /\ IF Raised(o)
           THEN Abort /\ UNCHANGED <<table, out>>
           ELSE /\ pc' = "summary_halal_ecommerce"
                /\ ChartResponse("query_internet_penetration", o)
    /\ UNCHANGED <<countries, options, selected, button, user_query, country_profile,
                   country_totals, idx, raised, comparison_df>>

\* lines 117-131: the AI Insights view
ViewAI ==
    /\ pc = "view"
    /\ selected' = "AI Insights"
    /\ \E q \in Queries, b \in BOOLEAN :
        /\ user_query' = q
        /\ button' = b
        /\ IF b /\ Strip(q) # <<>>
           THEN \E o \in Outcomes(AIBodies) :
                   /\ calls' = Issue("ai_query")
                   /\ response' = At("ai_query", o)
                   /\ IF Raised(o)
                      THEN Abort /\ UNCHANGED out
                      ELSE /\ pc' = "summary_halal_ecommerce"
                           /\ out' = IF ~Ok(o)
                                     THEN Widget("error", "ai_query", "")
                                     ELSE IF "result" \in DOMAIN o.body.val
                                          THEN Widget("dataframe", "ai_query", "")
                                          ELSE Widget("markdown", "ai_query", "")
           ELSE /\ pc' = "summary_halal_ecommerce"
                /\ UNCHANGED <<calls, response, out>>
    /\ UNCHANGED <<countries, options, country_profile, table,
                   country_totals, idx, raised, comparison_df>>

\* lines 134-144: the Data Explorer view
ViewDataExplorer ==
    /\ pc = "view"
    /\ selected' = "Data Explorer"
    /\ options' = [options EXCEPT !.explorer = Rendered(countries)]
    /\ \E o \in Outcomes(QueryBodies) :
        /\ calls' = Issue("query_explorer")
        /\ response' = At("query_explorer", o)
        /\ IF Raised(o)
           THEN Abort /\ UNCHANGED <<table, out>>
           ELSE /\ pc' = "summary_halal_ecommerce"
                /\ IF Ok(o)
                   THEN /\ table' = Built("query_explorer", o.body)
                        /\ out' = Widget("dataframe", "query_explorer", "")
                   ELSE /\ out' = Widget("warning", "query_explorer", "")
                        /\ UNCHANGED table
    /\ UNCHANGED <<countries, button, user_query, country_profile,
                   country_totals, idx, raised, comparison_df>>

\* lines 150-168: one summary column: the call, the default on non-200, the
\* metric, a percentage in the fourth column
Summary(site, default, percent, next) ==
    /\ pc = site
    /\ \E o \in Outcomes(SummaryBodies) :
        /\ calls' = Issue(site)
        /\ response' = At(site, o)
        /\ IF Raised(o)
           THEN Abort /\ UNCHANGED out
           ELSE /\ pc' = next
                /\ out' = Widget("metric", site,
                                 IF percent
                                 THEN MetricPct(SummaryData(o, default))
                                 ELSE MetricUSD(SummaryData(o, default)))
    /\ UNCHANGED <<countries, options, selected, button, user_query, country_profile,
                   table, country_totals, idx, raised, comparison_df>>

\* lines 150-153
SummaryHalal ==
    Summary("summary_halal_ecommerce", [count |-> 0, avg_growth_rate |-> 0],
            FALSE, "summary_islamic_fintech")

\* lines 155-158
SummaryFintech ==
    Summary("summary_islamic_fintech", [count |-> 0], FALSE, "summary_ict_services")

\* lines 160-163
SummaryICT ==
    Summary("summary_ict_services", [count |-> 0], FALSE, "summary_household_ict")

\* lines 165-168
SummaryHousehold ==
    Summary("summary_household_ict", [avg_growth_rate |-> DefaultRate],
            TRUE, "profile_select")

\* lines 172-174: the country selectbox returns one of its options, None if it
\* has none
SelectCountryProfile ==
    /\ pc = "profile_select"
    /\ options' = [options EXCEPT !.profile = Rendered(countries)]
    /\ IF countries = <<>>
       THEN country_profile' = NoCountry
       ELSE \E i \in 1..Len(countries) : country_profile' = countries[i]
    /\ pc' = IF country_profile' # NoCountry THEN "profile_halal_ecommerce" ELSE "cross_request"
    /\ UNCHANGED <<countries, selected, button, user_query, response, table, out, calls,
                   country_totals, idx, raised, comparison_df>>

\* lines 178-180, 183-185: one profile column: DataFrame of the body as it
\* came, [] on non-200
Profile(site, next) ==
    /\ pc = site
    /\ \E o \in Outcomes(QueryBodies) :
        /\ calls' = Issue(site)
        /\ response' = At(site, o)
        /\ LET data == IF Ok(o) THEN o.body ELSE EmptyList
           IN IF Raised(o) \/ ~DataFrame(data).ok
              THEN Abort /\ UNCHANGED <<table, out>>
              ELSE /\ pc' = next
                   /\ table' = [site |-> site, shape |-> data.shape,
                                rows |-> DataFrame(data).rows]
                   /\ out' = Widget("dataframe", site, "")
    /\ UNCHANGED <<countries, options, selected, button, user_query, country_profile,
                   country_totals, idx, raised, comparison_df>>

\* lines 176-180
ProfileHalal == Profile("profile_halal_ecommerce", "profile_islamic_fintech")

\* lines 181-185
ProfileFintech == Profile("profile_islamic_fintech", "cross_request")

\* line 198: the aggregation call of the idx-th (label, endpoint) pair
CrossRequest(bodies) ==
    /\ pc = "cross_request"
    /\ \E o \in Outcomes(bodies) :
        /\ calls' = Issue(CrossSite(idx))
        /\ response' = At(CrossSite(idx), o)
    /\ pc' = "cross_accumulate"
    /\ UNCHANGED <<countries, options, selected, button, user_query, country_profile,
                   table, out, country_totals, idx, raised, comparison_df>>

\* lines 199-209: the rest of the iteration; the body is read and dropped
CrossAccumulate ==
    /\ pc = "cross_accumulate"
    /\ LET r == LoopBody(response, Labels[idx], country_totals)
       IN /\ country_totals' = r.totals
          /\ raised' = r.raised
    /\ table' = IF Ok(response) THEN Built(CrossSite(idx), response.body) ELSE table
    /\ response' = [response EXCEPT !.body = NoBody]
    /\ idx' = idx + 1
    /\ pc' = IF idx = Len(Labels) THEN "chart" ELSE "cross_request"
    /\ UNCHANGED <<countries, options, selected, button, user_query, country_profile,
                   out, calls, comparison_df>>

\* lines 211-224: the comparison chart
RenderComparison ==
    /\ pc = "chart"
    /\ IF country_totals # EmptyMap
       THEN /\ comparison_df' = ComparisonFrame(country_totals)
            /\ out' = Widget("chart", "comparison", "")
       ELSE UNCHANGED <<comparison_df, out>>
    /\ pc' = "download"
    /\ UNCHANGED <<countries, options, selected, button, user_query, country_profile,
                   response, table, calls, country_totals, idx, raised>>

\* lines 229-244: the report download
Download ==
    /\ pc = "download"
    /\ \E o \in Outcomes(DownloadBodies) :
        /\ calls' = Issue("download")
        /\ response' = At("download", o)
        /\ out' = IF Raised(o) THEN Widget("error", "download", "")
                  ELSE IF Ok(o) THEN Widget("download_button", "download", "")
                  ELSE Widget("info", "download", "")
    /\ pc' = "done"
    /\ UNCHANGED <<countries, options, selected, button, user_query, country_profile,
                   table, country_totals, idx, raised, comparison_df>>

Next ==
    \/ FilterPopulation
    \/ ViewHalal
    \/ ViewICT
    \/ ViewPenetration
    \/ ViewAI
    \/ ViewDataExplorer
    \/ SummaryHalal
    \/ SummaryFintech
    \/ SummaryICT
    \/ SummaryHousehold
    \/ SelectCountryProfile
    \/ ProfileHalal
    \/ ProfileFintech
    \/ CrossRequest(SingleRowAggBodies)
    \/ CrossAccumulate
    \/ RenderComparison
    \/ Download

Spec == Init /\ [][Next]_vars

\* ------------------------------------------- the cross-sector comparison
\* The loop of lines 196-209 on responses of up to MaxRows rows, entered from
\* the pass in which every earlier call returned a non-200 status and the
\* profile is Malaysia's.
InitCross ==
    /\ pc = "cross_request"
    /\ countries = DefaultCountries
    /\ options = [sidebar |-> Rendered(DefaultCountries), explorer |-> NoWidget,
                  profile |-> Rendered(DefaultCountries)]
    /\ selected = "Halal E-commerce"
    /\ button = FALSE
    /\ user_query = <<>>
    /\ country_profile = "Malaysia"
    /\ response = [site |-> "profile_islamic_fintech", kind |-> "http", status |-> 500,
                   body |-> NoBody]
    /\ table = [site |-> "profile_islamic_fintech", shape |-> "list", rows |-> 0]
    /\ out = Widget("dataframe", "profile_islamic_fintech", "")
    /\ calls = <<"filter", "agg_halal_revenue",
                 "summary_halal_ecommerce", "summary_islamic_fintech",
                 "summary_ict_services", "summary_household_ict",
                 "profile_halal_ecommerce", "profile_islamic_fintech">>
    /\ country_totals = EmptyMap
    /\ idx = 1
    /\ raised = FALSE
    /\ comparison_df = EmptyMap

NextCross ==
    \/ CrossRequest(AggBodies)
    \/ CrossAccumulate
    \/ RenderComparison
    \/ Download

SpecCross == InitCross /\ [][NextCross]_vars

\* ----------------------------------------------------------------- claims
Issued == {calls[i] : i \in 1..Len(calls)}
SummarySites ==
    {"summary_halal_ecommerce", "summary_islamic_fintech",
     "summary_ict_services", "summary_household_ict"}
ProfileSites == {"profile_halal_ecommerce", "profile_islamic_fintech"}
CrossSites == {CrossSite(i) : i \in 1..Len(Labels)}
Ended == pc \in {"done", "aborted"}

\* C1: no failure of a backend call, non-200 or transport exception, aborts
\* the render pass.
C1_NeverAborts == pc # "aborted"

\* C2: once the comparison is charted, every country of the accumulator has a
\* value for each of the three sector labels.
C2_AllSectorsPresent ==
    comparison_df # EmptyMap =>
        \A c \in DOMAIN country_totals :
            /\ c \in DOMAIN comparison_df
            /\ \A i \in 1..Len(Labels) : Labels[i] \in DOMAIN comparison_df[c]

\* C3: at every site that tabulates a response, a 200 response whose body is
\* a single object gives a table of exactly one row.
C3_ObjectIsOneRow ==
    /\ (/\ Ok(response)
        /\ response.site \in
               {"agg_halal_revenue", "agg_ict_gross_output",
                "query_internet_penetration", "query_explorer"} \cup ProfileSites
        /\ response.body.shape = "object")
           => (table.site = response.site /\ table.rows = 1)
    /\ (table.site \in CrossSites /\ table.shape = "object") => table.rows = 1

\* the country list right after filter population, and the widgets offering it
C4_AfterFilter ==
    /\ pc = "view" =>
          /\ ~Ok(response) => countries = DefaultCountries
          /\ (Ok(response) /\ response.body.shape = "list") =>
                /\ {countries[i] : i \in 1..Len(countries)}
                       = {response.body.val[i].country : i \in 1..Len(response.body.val)}
                /\ \A i, j \in 1..Len(countries) : i # j => countries[i] # countries[j]
    /\ \A w \in DOMAIN options : options[w].rendered => options[w].options = countries
    /\ pc # "filter" => options.sidebar.rendered
\* C4: after a failed filter-source call the country list is exactly the
\* default list, after a successful one it is the distinct countries of the
\* returned rows; the list never changes afterwards, and the country
\* selector, the Data Explorer filter and the profile selector offer it.
C4_CountryList ==
    [](C4_AfterFilter) /\ [][pc # "filter" => countries' = countries]_vars
C4_Witness ==
    /\ pc = "view"
    /\ response.kind = "exception"
    /\ options.sidebar.options = <<"Malaysia", "Indonesia", "Saudi Arabia">>

\* C5: a currency metric shows count * 1,000,000 on a 200 response with a
\* count and 0 on a non-200 one; the percentage metric shows the returned
\* avg_growth_rate on 200 and 75.4 on non-200 or when the field is missing.
C5_SummaryMetrics ==
    (response.site \in SummarySites /\ ~Raised(response)) =>
        /\ out.widget = "metric" /\ out.label = response.site
        /\ IF response.site # "summary_household_ict"
           THEN /\ ~Ok(response) => out.value = "$0 USD"
                /\ (Ok(response) /\ "count" \in DOMAIN response.body.val) =>
                      /\ response.body.val.count = 0 => out.value = "$0 USD"
                      /\ response.body.val.count = 3 => out.value = "$3,000,000 USD"
                      /\ response.body.val.count > 0 =>
                            out.value
                                = "$" \o ToString(response.body.val.count) \o ",000,000 USD"
           ELSE /\ (~Ok(response) \/ "avg_growth_rate" \notin DOMAIN response.body.val)
                      => out.value = "75.4%"
                /\ (Ok(response) /\ "avg_growth_rate" \in DOMAIN response.body.val) =>
                      /\ response.body.val.avg_growth_rate = 612 => out.value = "61.2%"
                      /\ out.value
                            = ToString(response.body.val.avg_growth_rate \div 10) \o "."
                                \o ToString(response.body.val.avg_growth_rate % 10) \o "%"
C5_Witness ==
    /\ response.site = "summary_halal_ecommerce"
    /\ Ok(response)
    /\ "count" \in DOMAIN response.body.val
    /\ response.body.val.count = 3
    /\ out.value = "$3,000,000 USD"

\* C6: POST /ai_query is issued only in the AI Insights view, with the button
\* pressed and a question that has a character other than whitespace.
C6_AIQueryGuard ==
    "ai_query" \in Issued =>
        /\ selected = "AI Insights"
        /\ button
        /\ \E i \in 1..Len(user_query) : user_query[i] # " "
C6_Witness ==
    /\ selected = "AI Insights"
    /\ button
    /\ user_query = <<" ">>
    /\ pc = "summary_halal_ecommerce"
    /\ "ai_query" \notin Issued

\* C7: an aggregation endpoint that fails (exception, non-200, or an exception
\* while its rows are processed) leaves the accumulator exactly as it was.
C7_FailedEndpointContributesNothing ==
    [][(pc = "cross_accumulate" /\ (Raised(response) \/ ~Ok(response) \/ raised'))
           => country_totals' = country_totals]_vars

\* C8: no call is made twice in a pass, the calls follow the section order,
\* filter population first, and the response in hand is that of the last call
\* made.
C8_OnceInSectionOrder ==
    /\ \A i \in 1..(Len(calls) - 1) : Rank(calls[i]) < Rank(calls[i + 1])
    /\ calls # <<>> => calls[1] = "filter"
    /\ response.site # "none" => response.site = calls[Len(calls)]
    /\ pc = "done" => (SummarySites \cup CrossSites \cup {"filter", "download"}) \subseteq Issued
C8_Witness ==
    /\ pc = "done"
    /\ Len(calls) = 13
    /\ response.kind = "exception"

\* C9: with an empty country list no country is selected, no profile query is
\* issued, and summary metrics, comparison and download are still run.
C9_EmptyCountryList ==
    (Ended /\ countries = <<>>) =>
        /\ country_profile = NoCountry
        /\ ProfileSites \cap Issued = {}
        /\ (SummarySites \cup CrossSites \cup {"download"}) \subseteq Issued

\* C10: within one aggregation response the rows are merged by overwrite: the
\* entry of (country, label) is total * 1,000,000 of the last row of that
\* country that was processed, and the entries of other labels are unchanged.
C10_LastRowWins ==
    [][(pc = "cross_accumulate" /\ Ok(response)) =>
          LET rows == IF response.body.shape = "list"
                      THEN response.body.val ELSE <<response.body.val>>
              bad == {i \in 1..Len(rows) : ~rows[i].numeric}
              n == IF bad = {} THEN Len(rows)
                   ELSE (CHOOSE i \in bad : \A k \in bad : i <= k) - 1
              label == Labels[idx]
              last(c) == CHOOSE i \in 1..n :
                             /\ rows[i].country = c
                             /\ \A k \in 1..n : rows[k].country = c => k <= i
          IN /\ \A c \in {rows[i].country : i \in 1..n} :
                   /\ c \in DOMAIN country_totals'
                   /\ label \in DOMAIN country_totals'[c]
                   /\ country_totals'[c][label] = rows[last(c)].total * 1000000
             /\ \A c \in DOMAIN country_totals' :
                   \A l \in DOMAIN country_totals'[c] :
                       l # label =>
                           /\ c \in DOMAIN country_totals
                           /\ l \in DOMAIN country_totals[c]
                           /\ country_totals'[c][l] = country_totals[c][l]
             /\ \A c \in DOMAIN country_totals :
                   /\ c \in DOMAIN country_totals'
                   /\ DOMAIN country_totals[c] \subseteq DOMAIN country_totals'[c]
             /\ \A c \in DOMAIN country_totals' :
                   (c \notin {rows[i].country : i \in 1..n}) =>
                       /\ c \in DOMAIN country_totals
                       /\ country_totals'[c] = country_totals[c]
      ]_vars
C10_Witness ==
    /\ pc = "cross_request"
    /\ idx = 3
    /\ table.site = "cross_islamic_fintech"
    /\ table.rows = 2
    /\ ~raised
    /\ DOMAIN country_totals = {"Malaysia"}
    /\ DOMAIN country_totals["Malaysia"] = {"Halal E-commerce", "Islamic Fintech"}
    /\ country_totals["Malaysia"]["Halal E-commerce"] = 1000000
    /\ country_totals["Malaysia"]["Islamic Fintech"] = 2000000

====
